---- MODULE Spec2Model ----
(***************************************************************************)
(* Model of pkg/anthropic/client.go: the OpenAI <-> Anthropic translator.  *)
(*                                                                         *)
(* Go strings are TLA+ strings ("" is the empty string, \o concatenates).  *)
(* A param.Opt[T] is a record [valid, Value]; an unset Opt carries the     *)
(* zero value of T, which is all the code ever reads (it reads .Value).    *)
(* float64 sampling parameters are integers counting tenths (7 is 0.7):    *)
(* the code only compares them with 0 and copies them.                     *)
(* A nil slice is the empty sequence <<>>.                                  *)
(***************************************************************************)
EXTENDS Integers, Sequences, FiniteSets, TLC

VARIABLES
    pc,            \* position of the translation under check
    msg,           \* the message handed to an extractor
    extracted,     \* what the extractor returned
    req,           \* *openai.ChatCompletionNewParams handed to toAnthropicRequest
    anthropicReq,  \* anthropic.MessageNewParams it returned
    resp,          \* *anthropic.Message handed to toOpenAIResponse
    model,         \* the model string handed to toOpenAIResponse
    openaiResp,    \* *openAIResponse it returned
    calls,         \* ChatCompletion calls: call id -> its frame
    sdk            \* c.sdk.Messages.New invocations recorded per call

vars == <<pc, msg, extracted, req, anthropicReq, resp, model, openaiResp, calls, sdk>>

-----------------------------------------------------------------------------
(* Bounds of the model *)

MaxParts == 2
MaxMsgs == 3
MaxBlocks == 3
NumCalls == 2

-----------------------------------------------------------------------------
(* Values *)

Nil == [nil |-> TRUE]

Opt(v) == [valid |-> TRUE, Value |-> v]
UnsetInt == [valid |-> FALSE, Value |-> 0]
UnsetString == [valid |-> FALSE, Value |-> ""]

DefaultMaxTokens == 4096

\* All sequences over S of length 0..n
SeqUpTo(S, n) == UNION {[1..k -> S] : k \in 0..n}

-----------------------------------------------------------------------------
(* strings.Join(parts, sep) *)

RECURSIVE Join(_, _)
Join(parts, sep) ==
    IF parts = <<>> THEN ""
    ELSE IF Len(parts) = 1 THEN parts[1]
    ELSE parts[1] \o sep \o Join(Tail(parts), sep)

-----------------------------------------------------------------------------
(* Content extraction.  A message is [role, Content], Content is           *)
(* [OfString: Opt string, OfArrayOfContentParts: sequence of parts].       *)
(* A system part is a ChatCompletionContentPartTextParam [Text]; a user or *)
(* assistant part is a union [OfText], OfText being Nil or [Text].         *)

\* the loop of extractSystemContent: keeps the parts whose Text is non-empty
RECURSIVE systemParts(_)
systemParts(ps) ==
    IF ps = <<>> THEN <<>>
    ELSE IF Head(ps).Text # ""
         THEN <<Head(ps).Text>> \o systemParts(Tail(ps))
         ELSE systemParts(Tail(ps))

\* the loop of extractUserContent / extractAssistantContent: keeps the text
\* of the parts whose OfText is not nil
RECURSIVE textParts(_)
textParts(ps) ==
    IF ps = <<>> THEN <<>>
    ELSE IF Head(ps).OfText # Nil
         THEN <<Head(ps).OfText.Text>> \o textParts(Tail(ps))
         ELSE textParts(Tail(ps))

extractSystemContent(m) ==
    IF m.Content.OfString.Value # "" THEN m.Content.OfString.Value
    ELSE Join(systemParts(m.Content.OfArrayOfContentParts), " ")

extractUserContent(m) ==
    IF m.Content.OfString.Value # "" THEN m.Content.OfString.Value
    ELSE Join(textParts(m.Content.OfArrayOfContentParts), " ")

extractAssistantContent(m) ==
    IF m.Content.OfString.Value # "" THEN m.Content.OfString.Value
    ELSE Join(textParts(m.Content.OfArrayOfContentParts), " ")

\* the extractor toAnthropicRequest uses for a message of each role
extractContent(m) ==
    CASE m.role = "system"    -> extractSystemContent(m)
      [] m.role = "user"      -> extractUserContent(m)
      [] m.role = "assistant" -> extractAssistantContent(m)

-----------------------------------------------------------------------------
(* Inputs of the extractors *)

PartTexts == {"", "a", "b"}
ContentStrings == {UnsetString, Opt(""), Opt("s")}

SystemPart == [Text : PartTexts]
\* a union part: a text part, or another kind (image_url, input_audio, file,
\* refusal), whose OfText is nil
UnionPart == [OfText : [Text : PartTexts] \cup {Nil}]

SystemContent ==
    [OfString : ContentStrings, OfArrayOfContentParts : SeqUpTo(SystemPart, MaxParts)]
UnionContent ==
    [OfString : ContentStrings, OfArrayOfContentParts : SeqUpTo(UnionPart, MaxParts)]

ExtractInputs ==
    [role : {"system"}, Content : SystemContent]
      \cup [role : {"user", "assistant"}, Content : UnionContent]

-----------------------------------------------------------------------------
(* Specification of the extractors: one message in, one string out *)

InitExtract ==
    /\ pc = "extract"
    /\ msg \in ExtractInputs
    /\ extracted = Nil
    /\ req = Nil /\ anthropicReq = Nil
    /\ resp = Nil /\ model = Nil /\ openaiResp = Nil
    /\ calls = Nil /\ sdk = Nil

Extract ==
    /\ pc = "extract"
    /\ extracted' = [text |-> extractContent(msg)]
    /\ pc' = "done"
    /\ UNCHANGED <<msg, req, anthropicReq, resp, model, openaiResp, calls, sdk>>

SpecExtract == InitExtract /\ [][Extract]_vars

-----------------------------------------------------------------------------
(* toAnthropicRequest.  A request is                                       *)
(* [Model, Messages, MaxCompletionTokens, MaxTokens, Temperature, TopP,    *)
(*  Stop: [OfStringArray, OfString], stream]; a message of the union is    *)
(* [role, Content], role "tool" standing for the variants the switch has   *)
(* no case for (OfDeveloper, OfTool, OfFunction).                          *)

NewTextBlock(text) == [Type |-> "text", Text |-> text]
NewUserMessage(block) == [Role |-> "user", Content |-> <<block>>]
NewAssistantMessage(block) == [Role |-> "assistant", Content |-> <<block>>]

\* the loop over req.Messages, from the state (messages, systemPrompt)
RECURSIVE processMessages(_, _, _)
processMessages(ms, messages, systemPrompt) ==
    IF ms = <<>> THEN [messages |-> messages, systemPrompt |-> systemPrompt]
    ELSE LET m == Head(ms) IN
         CASE m.role = "system" ->
                processMessages(Tail(ms), messages, extractSystemContent(m))
           [] m.role = "user" ->
                processMessages(Tail(ms),
                    Append(messages, NewUserMessage(NewTextBlock(extractUserContent(m)))),
                    systemPrompt)
           [] m.role = "assistant" ->
                processMessages(Tail(ms),
                    Append(messages,
                           NewAssistantMessage(NewTextBlock(extractAssistantContent(m)))),
                    systemPrompt)
           [] OTHER ->
                processMessages(Tail(ms), messages, systemPrompt)

\* faulty variant: a system message is also appended as an entry of the
\* outbound sequence
RECURSIVE processMessagesInline(_, _, _)
processMessagesInline(ms, messages, systemPrompt) ==
    IF ms = <<>> THEN [messages |-> messages, systemPrompt |-> systemPrompt]
    ELSE LET m == Head(ms) IN
         IF m.role \in {"system", "user", "assistant"}
         THEN processMessagesInline(Tail(ms),
                  Append(messages,
                         [Role |-> m.role,
                          Content |-> <<NewTextBlock(extractContent(m))>>]),
                  IF m.role = "system" THEN extractSystemContent(m) ELSE systemPrompt)
         ELSE processMessagesInline(Tail(ms), messages, systemPrompt)

convertMessages_SystemInline(r) == processMessagesInline(r.Messages, <<>>, "")

\* faulty variant: the assistant case builds its entry with NewUserMessage
convertMessages_AssistantAsUser(r) ==
    LET conv == processMessages(r.Messages, <<>>, "") IN
    [conv EXCEPT !.messages =
        [k \in 1..Len(conv.messages) |-> [conv.messages[k] EXCEPT !.Role = "user"]]]

\* faulty variant: a later system message does not overwrite the system
\* prompt an earlier one has set
RECURSIVE keepFirstSystem(_, _)
keepFirstSystem(ms, systemPrompt) ==
    IF ms = <<>> THEN systemPrompt
    ELSE IF Head(ms).role = "system" /\ systemPrompt = ""
         THEN keepFirstSystem(Tail(ms), extractSystemContent(Head(ms)))
         ELSE keepFirstSystem(Tail(ms), systemPrompt)

convertMessages_FirstSystemWins(r) ==
    [processMessages(r.Messages, <<>>, "") EXCEPT
        !.systemPrompt = keepFirstSystem(r.Messages, "")]

\* var messages, var systemPrompt, then the loop
convertMessages(r) == processMessages(r.Messages, <<>>, "")

\* faulty variant: max_tokens is preferred over max_completion_tokens
maxTokensOf_MaxTokensFirst(r) ==
    IF r.MaxTokens.Value > 0 THEN r.MaxTokens.Value
    ELSE IF r.MaxCompletionTokens.Value > 0 THEN r.MaxCompletionTokens.Value
    ELSE DefaultMaxTokens

maxTokensOf(r) ==
    IF r.MaxCompletionTokens.Value > 0 THEN r.MaxCompletionTokens.Value
    ELSE IF r.MaxTokens.Value > 0 THEN r.MaxTokens.Value
    ELSE DefaultMaxTokens

systemOf(systemPrompt) ==
    IF systemPrompt # "" THEN <<[Text |-> systemPrompt]>> ELSE <<>>

\* params.Temperature / params.TopP from the request's Opt
samplingOf(opt) ==
    IF opt.Value > 0 THEN Opt(opt.Value) ELSE UnsetInt

\* faulty variant: the string form is preferred over the array form
stopSequencesOf_StringFirst(r) ==
    IF r.Stop.OfString.Value # "" THEN <<r.Stop.OfString.Value>>
    ELSE IF Len(r.Stop.OfStringArray) > 0 THEN r.Stop.OfStringArray
    ELSE <<>>

stopSequencesOf(r) ==
    IF Len(r.Stop.OfStringArray) > 0 THEN r.Stop.OfStringArray
    ELSE IF r.Stop.OfString.Value # "" THEN <<r.Stop.OfString.Value>>
    ELSE <<>>

toAnthropicRequest(r) ==
    LET conv == convertMessages(r) IN
    [ Model         |-> r.Model,
      Messages      |-> conv.messages,
      MaxTokens     |-> maxTokensOf(r),
      System        |-> systemOf(conv.systemPrompt),
      Temperature   |-> samplingOf(r.Temperature),
      TopP          |-> samplingOf(r.TopP),
      StopSequences |-> stopSequencesOf(r) ]

-----------------------------------------------------------------------------
(* Inputs of toAnthropicRequest *)

Models == {"claude-sonnet-4-5", "claude-opus-4-5"}

StringContent(s) == [OfString |-> Opt(s), OfArrayOfContentParts |-> <<>>]

\* the messages of a conversation: string contents for every role, one
\* two-part content per role, and a system message without text
ConversationMessages ==
    [role : {"system", "user", "assistant", "tool"},
     Content : {StringContent("Hi"), StringContent("Yo")}]
      \cup {[role |-> "system", Content |-> StringContent("")]}
      \cup {[role |-> "system",
             Content |-> [OfString |-> UnsetString,
                          OfArrayOfContentParts |-> <<[Text |-> "a"], [Text |-> "b"]>>]]}
      \cup [role : {"user", "assistant"},
            Content : {[OfString |-> UnsetString,
                        OfArrayOfContentParts |->
                            <<[OfText |-> [Text |-> "a"]], [OfText |-> Nil],
                              [OfText |-> [Text |-> "b"]]>>]}]

NoStop == [OfStringArray |-> <<>>, OfString |-> UnsetString]

\* a request that sets nothing but its model and messages
PlainRequest(mdl, ms) ==
    [ Model |-> mdl, Messages |-> ms,
      MaxCompletionTokens |-> UnsetInt, MaxTokens |-> UnsetInt,
      Temperature |-> UnsetInt, TopP |-> UnsetInt,
      Stop |-> NoStop, stream |-> FALSE ]

TokenOpts(v) == {UnsetInt, Opt(0), Opt(0 - 1), Opt(v)}
SamplingOpts(v) == {UnsetInt, Opt(0), Opt(v)}
StopForms ==
    [OfStringArray : {<<>>, <<"END">>, <<"END", "STOP">>},
     OfString : {UnsetString, Opt(""), Opt("HALT")}]

\* conversations of up to MaxMsgs messages with every option unset
ConversationRequests ==
    {PlainRequest("claude-sonnet-4-5", ms) : ms \in SeqUpTo(ConversationMessages, MaxMsgs)}

\* every combination of the options, on a conversation of at most one message
OptionRequests ==
    [ Model : Models,
      Messages : {<<>>, <<[role |-> "user", Content |-> StringContent("Hi")]>>},
      MaxCompletionTokens : TokenOpts(512), MaxTokens : TokenOpts(1024),
      Temperature : SamplingOpts(7), TopP : SamplingOpts(9),
      Stop : StopForms, stream : {FALSE} ]

RequestInputs == ConversationRequests \cup OptionRequests

-----------------------------------------------------------------------------
(* Specification of toAnthropicRequest: one request in, one params out *)

InitRequest ==
    /\ pc = "request"
    /\ req \in RequestInputs
    /\ anthropicReq = Nil
    /\ msg = Nil /\ extracted = Nil
    /\ resp = Nil /\ model = Nil /\ openaiResp = Nil
    /\ calls = Nil /\ sdk = Nil

ToAnthropicRequest ==
    /\ pc = "request"
    /\ anthropicReq' = toAnthropicRequest(req)
    /\ pc' = "done"
    /\ UNCHANGED <<msg, extracted, req, resp, model, openaiResp, calls, sdk>>

SpecRequest == InitRequest /\ [][ToAnthropicRequest]_vars

-----------------------------------------------------------------------------
(* toOpenAIResponse.  A backend response is                                *)
(* [ID, Model, Content: sequence of [Type, Text], StopReason,              *)
(*  Usage: [InputTokens, OutputTokens]].                                   *)

StopReasonMaxTokens == "max_tokens"
StopReasonToolUse == "tool_use"

\* the loop over resp.Content: content += block.Text for the text blocks
RECURSIVE concatText(_)
concatText(blocks) ==
    IF blocks = <<>> THEN ""
    ELSE IF Head(blocks).Type = "text"
         THEN Head(blocks).Text \o concatText(Tail(blocks))
         ELSE concatText(Tail(blocks))

\* faulty variant: the loop appends block.Text without looking at block.Type
RECURSIVE concatAll(_)
concatAll(blocks) ==
    IF blocks = <<>> THEN "" ELSE Head(blocks).Text \o concatAll(Tail(blocks))

contentOf_AnyBlock(r) == concatAll(r.Content)

contentOf(r) == concatText(r.Content)

\* faulty variant: the switch has no case for the tool-use reason
finishReasonOf_NoToolUse(r) ==
    CASE r.StopReason = StopReasonMaxTokens -> "length"
      [] OTHER                              -> "stop"

finishReasonOf(r) ==
    CASE r.StopReason = StopReasonMaxTokens -> "length"
      [] r.StopReason = StopReasonToolUse   -> "tool_calls"
      [] OTHER                              -> "stop"

\* int(x) of an int64 token count: Go's int has 64 bits on the platforms the
\* router is built for, and the counts modelled are far below 2^31
toInt(x) == x

\* faulty variant: the total is the input count alone
usageOf_TotalIsInput(r) ==
    [ PromptTokens     |-> toInt(r.Usage.InputTokens),
      CompletionTokens |-> toInt(r.Usage.OutputTokens),
      TotalTokens      |-> toInt(r.Usage.InputTokens) ]

usageOf(r) ==
    [ PromptTokens     |-> toInt(r.Usage.InputTokens),
      CompletionTokens |-> toInt(r.Usage.OutputTokens),
      TotalTokens      |-> toInt(r.Usage.InputTokens + r.Usage.OutputTokens) ]

\* faulty variant: the model field is the model the backend reports
toOpenAIResponse_BackendModel(r, mdl, now) ==
    [ ID      |-> r.ID,
      Object  |-> "chat.completion",
      Created |-> now,
      Model   |-> r.Model,
      Choices |-> << [ Index        |-> 0,
                       Message      |-> [Role |-> "assistant", Content |-> contentOf(r)],
                       FinishReason |-> finishReasonOf(r) ] >>,
      Usage   |-> usageOf(r) ]

\* now is time.Now().Unix() at the call
toOpenAIResponse(r, mdl, now) ==
    [ ID      |-> r.ID,
      Object  |-> "chat.completion",
      Created |-> now,
      Model   |-> mdl,
      Choices |-> << [ Index        |-> 0,
                       Message      |-> [Role |-> "assistant", Content |-> contentOf(r)],
                       FinishReason |-> finishReasonOf(r) ] >>,
      Usage   |-> usageOf(r) ]

-----------------------------------------------------------------------------
(* Inputs of toOpenAIResponse *)

Blocks ==
    [Type : {"text"}, Text : {"", "First part. ", "Second part."}]
      \cup [Type : {"tool_use"}, Text : {"", "X"}]
      \cup {[Type |-> "thinking", Text |-> ""]}

StopReasons ==
    {"end_turn", "max_tokens", "stop_sequence", "tool_use", "pause_turn", "refusal",
     "", "no_such_reason"}

Usages == [InputTokens : {0, 5, 10}, OutputTokens : {0, 8, 100}]

Times == {1700000000, 1700000001}

\* every content of up to MaxBlocks blocks, on one fixed envelope
ContentResponses ==
    [ ID : {"msg_123"}, Model : {"claude-sonnet-4-5-20250929"},
      Content : SeqUpTo(Blocks, MaxBlocks),
      StopReason : {"end_turn"},
      Usage : {[InputTokens |-> 5, OutputTokens |-> 10]} ]

\* every envelope, on a content of at most one block
EnvelopeResponses ==
    [ ID : {"msg_123", "msg_456"}, Model : {"claude-sonnet-4-5-20250929"},
      Content : {<<>>, <<[Type |-> "text", Text |-> "Partial response..."]>>},
      StopReason : StopReasons,
      Usage : Usages ]

ResponseInputs == ContentResponses \cup EnvelopeResponses

-----------------------------------------------------------------------------
(* Specification of toOpenAIResponse: one response and model in, one out *)

InitResponse ==
    /\ pc = "response"
    /\ resp \in ResponseInputs
    /\ model \in Models
    /\ openaiResp = Nil
    /\ msg = Nil /\ extracted = Nil
    /\ req = Nil /\ anthropicReq = Nil
    /\ calls = Nil /\ sdk = Nil

ToOpenAIResponse ==
    /\ pc = "response"
    /\ \E now \in Times : openaiResp' = toOpenAIResponse(resp, model, now)
    /\ pc' = "done"
    /\ UNCHANGED <<msg, extracted, req, anthropicReq, resp, model, calls, sdk>>

SpecResponse == InitResponse /\ [][ToOpenAIResponse]_vars

-----------------------------------------------------------------------------
(* ChatCompletion.  Each call id is one call of ChatCompletion(ctx, req)   *)
(* on the same Client; the call blocks in c.sdk.Messages.New until the     *)
(* backend answers or fails.  sdk[c] records the invocations of            *)
(* Messages.New made by call c, as a backend stub would.                   *)

CallIds == 1..NumCalls

\* the context the caller of call c passes in
CtxOf(c) == [caller |-> c]

\* resp and sdkErr are what Messages.New handed back to the call; body and err
\* are what the call returned
IdleFrame ==
    [pc |-> "idle", ctx |-> Nil, req |-> Nil, resp |-> Nil, sdkErr |-> Nil,
     body |-> Nil, err |-> Nil]

\* json.Marshal of an *openAIResponse, by the json tags of the structs
Marshal(o) ==
    [ id      |-> o.ID,
      object  |-> o.Object,
      created |-> o.Created,
      model   |-> o.Model,
      choices |-> [ i \in 1..Len(o.Choices) |->
                      [ index         |-> o.Choices[i].Index,
                        message       |-> [ role    |-> o.Choices[i].Message.Role,
                                            content |-> o.Choices[i].Message.Content ],
                        finish_reason |-> o.Choices[i].FinishReason ] ],
      usage   |-> [ prompt_tokens     |-> o.Usage.PromptTokens,
                    completion_tokens |-> o.Usage.CompletionTokens,
                    total_tokens      |-> o.Usage.TotalTokens ] ]

\* fmt.Errorf("anthropic API error: %w", err)
wrapError(e) == [message |-> "anthropic API error: " \o e.Error, wraps |-> e]

\* requests the callers make: with and without the streaming flag, with and
\* without messages
CallRequests ==
    { [PlainRequest(mdl, ms) EXCEPT !.stream = st] :
        mdl \in Models, st \in BOOLEAN,
        ms \in {<<>>, <<[role |-> "user", Content |-> StringContent("Hi")]>>} }

\* what the backend may answer
BackendResponses ==
    { [ ID |-> "msg_123", Model |-> "claude-sonnet-4-5-20250929",
        Content |-> <<[Type |-> "text", Text |-> "Hello!"]>>,
        StopReason |-> "end_turn",
        Usage |-> [InputTokens |-> 10, OutputTokens |-> 8] ],
      [ ID |-> "msg_456", Model |-> "claude-opus-4-5-20251101",
        Content |-> <<[Type |-> "text", Text |-> "Partial"]>>,
        StopReason |-> "max_tokens",
        Usage |-> [InputTokens |-> 10, OutputTokens |-> 100] ] }

\* how Messages.New may fail: transport, application, cancellation
BackendErrors == [Error : {"connection reset", "400 Bad Request", "context canceled"}]

\* ChatCompletion up to the point where it blocks in c.sdk.Messages.New
ChatCompletion(c, r) ==
    /\ pc = "serve"
    /\ calls[c].pc = "idle"
    /\ calls' = [calls EXCEPT ![c] =
                    [@ EXCEPT !.pc = "awaiting", !.ctx = CtxOf(c), !.req = r]]
    /\ sdk' = [sdk EXCEPT ![c] =
                    Append(@, [ctx |-> CtxOf(c), params |-> toAnthropicRequest(r)])]
    /\ UNCHANGED <<pc, msg, extracted, req, anthropicReq, resp, model, openaiResp>>

\* faulty variant: the request is kept in a field of the Client that every
\* caller overwrites, so the model is that of the latest caller
MessagesNewReturns_SharedRequest(c, r, now) ==
    /\ pc = "serve"
    /\ calls[c].pc = "awaiting"
    /\ LET started == {d \in CallIds : calls[d].pc # "idle"}
           last == CHOOSE d \in started : \A e \in started : e <= d
       IN  calls' = [calls EXCEPT ![c] =
                       [@ EXCEPT !.pc = "returned", !.resp = r,
                                 !.body = Marshal(toOpenAIResponse(r, calls[last].req.Model,
                                                                   now))]]
    /\ UNCHANGED <<pc, msg, extracted, req, anthropicReq, resp, model, openaiResp, sdk>>

\* Messages.New returns a response: translate, serialize, return
MessagesNewReturns(c, r, now) ==
    /\ pc = "serve"
    /\ calls[c].pc = "awaiting"
    /\ calls' = [calls EXCEPT ![c] =
                    [@ EXCEPT !.pc = "returned", !.resp = r,
                              !.body = Marshal(toOpenAIResponse(r, calls[c].req.Model, now))]]
    /\ UNCHANGED <<pc, msg, extracted, req, anthropicReq, resp, model, openaiResp, sdk>>

\* faulty variant: a failed Messages.New is invoked once more before the
\* error is returned
MessagesNewFails_Retries(c, e) ==
    /\ pc = "serve"
    /\ calls[c].pc = "awaiting"
    /\ IF Len(sdk[c]) < 2
       THEN /\ sdk' = [sdk EXCEPT ![c] = Append(@, @[1])]
            /\ UNCHANGED calls
       ELSE /\ calls' = [calls EXCEPT ![c] =
                            [@ EXCEPT !.pc = "returned", !.sdkErr = e,
                                      !.err = wrapError(e)]]
            /\ UNCHANGED sdk
    /\ UNCHANGED <<pc, msg, extracted, req, anthropicReq, resp, model, openaiResp>>

\* Messages.New returns an error: wrap it and return no body
MessagesNewFails(c, e) ==
    /\ pc = "serve"
    /\ calls[c].pc = "awaiting"
    /\ calls' = [calls EXCEPT ![c] =
                    [@ EXCEPT !.pc = "returned", !.sdkErr = e, !.err = wrapError(e)]]
    /\ UNCHANGED <<pc, msg, extracted, req, anthropicReq, resp, model, openaiResp, sdk>>

Init ==
    /\ pc = "serve"
    /\ calls = [c \in CallIds |-> IdleFrame]
    /\ sdk = [c \in CallIds |-> <<>>]
    /\ msg = Nil /\ extracted = Nil
    /\ req = Nil /\ anthropicReq = Nil
    /\ resp = Nil /\ model = Nil /\ openaiResp = Nil

Next ==
    \/ \E c \in CallIds, r \in CallRequests : ChatCompletion(c, r)
    \/ \E c \in CallIds, r \in BackendResponses, now \in Times : MessagesNewReturns(c, r, now)
    \/ \E c \in CallIds, e \in BackendErrors : MessagesNewFails(c, e)

Spec == Init /\ [][Next]_vars

-----------------------------------------------------------------------------
(* Specification of the three extractors on one content value: a string    *)
(* form and an ordered sequence of text parts, built as the content of a   *)
(* system, a user and an assistant message.                                *)

ContentValues == [OfString : ContentStrings, texts : SeqUpTo(PartTexts, MaxParts)]

\* the content as a ChatCompletionSystemMessageParam: parts are text params
asSystemMessage(cv) ==
    [role |-> "system",
     Content |-> [OfString |-> cv.OfString,
                  OfArrayOfContentParts |->
                      [i \in 1..Len(cv.texts) |-> [Text |-> cv.texts[i]]]]]

\* the content as a user or assistant message: parts are unions with OfText
asUnionMessage(role, cv) ==
    [role |-> role,
     Content |-> [OfString |-> cv.OfString,
                  OfArrayOfContentParts |->
                      [i \in 1..Len(cv.texts) |-> [OfText |-> [Text |-> cv.texts[i]]]]]]

InitExtractors ==
    /\ pc = "extractors"
    /\ msg \in ContentValues
    /\ extracted = [system |-> Nil, user |-> Nil, assistant |-> Nil]
    /\ req = Nil /\ anthropicReq = Nil
    /\ resp = Nil /\ model = Nil /\ openaiResp = Nil
    /\ calls = Nil /\ sdk = Nil

ExtractSystem ==
    /\ pc = "extractors"
    /\ extracted.system = Nil
    /\ extracted' = [extracted EXCEPT
                        !.system = [text |-> extractSystemContent(asSystemMessage(msg))]]
    /\ UNCHANGED <<pc, msg, req, anthropicReq, resp, model, openaiResp, calls, sdk>>

ExtractUser ==
    /\ pc = "extractors"
    /\ extracted.user = Nil
    /\ extracted' = [extracted EXCEPT
                        !.user = [text |-> extractUserContent(asUnionMessage("user", msg))]]
    /\ UNCHANGED <<pc, msg, req, anthropicReq, resp, model, openaiResp, calls, sdk>>

ExtractAssistant ==
    /\ pc = "extractors"
    /\ extracted.assistant = Nil
    /\ extracted' = [extracted EXCEPT
                        !.assistant =
                            [text |-> extractAssistantContent(asUnionMessage("assistant", msg))]]
    /\ UNCHANGED <<pc, msg, req, anthropicReq, resp, model, openaiResp, calls, sdk>>

NextExtractors == ExtractSystem \/ ExtractUser \/ ExtractAssistant

SpecExtractors == InitExtractors /\ [][NextExtractors]_vars

-----------------------------------------------------------------------------
(* Claims about the extractors *)

\* what the contract calls a text-typed part of a message, and its text
IsTextPart(m, p) == IF m.role = "system" THEN TRUE ELSE p.OfText # Nil
PartText(m, p) == IF m.role = "system" THEN p.Text ELSE p.OfText.Text

TextValues(m) ==
    LET sel == SelectSeq(m.Content.OfArrayOfContentParts, LAMBDA p : IsTextPart(m, p))
    IN  [i \in 1..Len(sel) |-> PartText(m, sel[i])]

\* ts[1] ts[2] ... ts[n] with exactly one space between neighbours
RECURSIVE SpaceSeparated(_, _)
SpaceSeparated(ts, n) ==
    IF n = 0 THEN ""
    ELSE IF n = 1 THEN ts[1]
    ELSE SpaceSeparated(ts, n - 1) \o " " \o ts[n]

ContractText(m) ==
    IF m.Content.OfString.Value # "" THEN m.Content.OfString.Value
    ELSE SpaceSeparated(TextValues(m), Len(TextValues(m)))

\* C6: every extraction returns the non-empty string content unchanged,
\* otherwise the text of all text-typed parts in order joined by exactly one
\* space, and the empty string when there is neither.
C6_ExtractionContract ==
    pc = "done" => extracted.text = ContractText(msg)

\* the same contract restricted to user and assistant messages
C6_UnionExtractionContract ==
    (pc = "done" /\ msg.role # "system") => extracted.text = ContractText(msg)

AllExtracted ==
    /\ pc = "extractors"
    /\ extracted.system # Nil /\ extracted.user # Nil /\ extracted.assistant # Nil

\* C15: the three role-specific extractors are one and the same function:
\* on every content value (string form plus text parts, empty texts
\* included) all three return the same string.
C15_ExtractorsAgree ==
    AllExtracted =>
        /\ extracted.system.text = extracted.user.text
        /\ extracted.user.text = extracted.assistant.text

\* the user and the assistant extractor return the same string
C15_UnionExtractorsAgree ==
    AllExtracted => extracted.user.text = extracted.assistant.text

-----------------------------------------------------------------------------
(* Claims about toAnthropicRequest *)

Converted == pc = "done" /\ anthropicReq # Nil

\* an outbound optional is present exactly when the caller supplied it, and
\* then carries the supplied value
Propagated(inOpt, outOpt) ==
    /\ outOpt.valid <=> inOpt.valid
    /\ inOpt.valid => outOpt.Value = inOpt.Value

\* C2: the outbound temperature (and top_p) is set if and only if the caller
\* explicitly supplied it, with exactly the supplied value; an explicit 0.0
\* stays present and equal to 0.0.
C2_SamplingPropagatedWhenSet ==
    Converted =>
        /\ Propagated(req.Temperature, anthropicReq.Temperature)
        /\ Propagated(req.TopP, anthropicReq.TopP)

\* C3: the outbound max_tokens is max_completion_tokens when that is a
\* positive integer, else max_tokens when that is positive, else 4096, and
\* so it is always at least 1.
C3_MaxTokensResolved ==
    Converted =>
        /\ anthropicReq.MaxTokens =
             (IF req.MaxCompletionTokens.valid /\ req.MaxCompletionTokens.Value >= 1
                THEN req.MaxCompletionTokens.Value
              ELSE IF req.MaxTokens.valid /\ req.MaxTokens.Value >= 1
                THEN req.MaxTokens.Value
              ELSE 4096)
        /\ anthropicReq.MaxTokens >= 1

\* both limits are positive and max_completion_tokens has won
C3_Witness ==
    /\ Converted
    /\ req.MaxCompletionTokens.Value > 0 /\ req.MaxTokens.Value > 0
    /\ req.MaxCompletionTokens.Value # req.MaxTokens.Value
    /\ anthropicReq.MaxTokens = req.MaxCompletionTokens.Value

HasSystem(r) == \E i \in 1..Len(r.Messages) : r.Messages[i].role = "system"
RoleIndexes(r, roles) == {i \in 1..Len(r.Messages) : r.Messages[i].role \in roles}
NoSystemEntry(p) == \A k \in 1..Len(p.Messages) : p.Messages[k].Role # "system"

\* C4, as claimed: with a system message in the request, no system-role entry
\* is outbound and the number of outbound entries equals the number of
\* non-system input messages.
C4_CountOfNonSystemMessages ==
    (Converted /\ HasSystem(req)) =>
        /\ NoSystemEntry(anthropicReq)
        /\ Len(anthropicReq.Messages) =
             Cardinality({i \in 1..Len(req.Messages) : req.Messages[i].role # "system"})

\* C4, amended: with a system message in the request, no system-role entry is
\* outbound and the number of outbound entries equals the number of user-role
\* and assistant-role input messages.
C4_CountOfUserAndAssistantMessages ==
    (Converted /\ HasSystem(req)) =>
        /\ NoSystemEntry(anthropicReq)
        /\ Len(anthropicReq.Messages) =
             Cardinality(RoleIndexes(req, {"user", "assistant"}))

\* a system message, a message of another role, and a user turn were converted
C4_Witness ==
    /\ Converted
    /\ HasSystem(req)
    /\ RoleIndexes(req, {"tool"}) # {}
    /\ RoleIndexes(req, {"user"}) # {}
    /\ Len(anthropicReq.Messages) = Cardinality(RoleIndexes(req, {"user", "assistant"}))

\* the k-th smallest element of a set of indexes
Kth(idx, k) == CHOOSE i \in idx : Cardinality({j \in idx : j < i}) = k - 1

\* C5: the outbound sequence is exactly the subsequence of the user and
\* assistant messages of the input, in their order, each entry keeping its
\* role and carrying the message's extracted text as a single text block;
\* other roles contribute no entry.
C5_TurnsPreservedInOrder ==
    Converted =>
        LET idx == RoleIndexes(req, {"user", "assistant"}) IN
        /\ Len(anthropicReq.Messages) = Cardinality(idx)
        /\ \A k \in 1..Len(anthropicReq.Messages) :
             LET m == req.Messages[Kth(idx, k)] IN
             anthropicReq.Messages[k] =
                 [Role |-> m.role,
                  Content |-> <<[Type |-> "text", Text |-> extractContent(m)]>>]

\* user, other role, assistant in that order, with different texts
C5_Witness ==
    /\ Converted
    /\ Len(req.Messages) = 3
    /\ req.Messages[1].role = "user" /\ req.Messages[2].role = "tool"
    /\ req.Messages[3].role = "assistant"
    /\ Len(anthropicReq.Messages) = 2
    /\ anthropicReq.Messages[1].Role = "user"
    /\ anthropicReq.Messages[2].Role = "assistant"
    /\ anthropicReq.Messages[1].Content[1].Text = "Hi"
    /\ anthropicReq.Messages[2].Content[1].Text = "a b"

\* C7: stop_sequences is the array form verbatim when it is non-empty, else
\* the one-element sequence of the string form when that is non-empty, else
\* omitted; the array form wins when both are present.
C7_StopSequencesResolved ==
    Converted =>
        anthropicReq.StopSequences =
            (IF req.Stop.OfStringArray # <<>> THEN req.Stop.OfStringArray
             ELSE IF req.Stop.OfString.valid /\ req.Stop.OfString.Value # ""
               THEN <<req.Stop.OfString.Value>>
             ELSE <<>>)

\* both forms are present and the array form has been copied
C7_Witness ==
    /\ Converted
    /\ Len(req.Stop.OfStringArray) = 2
    /\ req.Stop.OfString.Value # ""
    /\ anthropicReq.StopSequences = req.Stop.OfStringArray

\* the outbound system text: the text of the single system block, and the
\* empty text when params.System is not set
SystemText(p) == IF p.System = <<>> THEN "" ELSE p.System[1].Text

LastIndex(idx) == CHOOSE i \in idx : \A j \in idx : j <= i

\* C13: the outbound system text is the text extracted from the last system
\* message of the input, whatever earlier system messages contained, with no
\* concatenation; without a system message no system text is set.
C13_LastSystemWins ==
    Converted =>
        LET sys == RoleIndexes(req, {"system"}) IN
        /\ Len(anthropicReq.System) <= 1
        /\ \A k \in 1..Len(anthropicReq.System) : anthropicReq.System[k].Text # ""
        /\ sys = {} => anthropicReq.System = <<>>
        /\ sys # {} =>
             SystemText(anthropicReq) =
                 extractSystemContent(req.Messages[LastIndex(sys)])

\* two system messages with different texts around a user turn
C13_Witness ==
    /\ Converted
    /\ Len(req.Messages) = 3
    /\ req.Messages[1] = [role |-> "system", Content |-> StringContent("Hi")]
    /\ req.Messages[2].role = "user"
    /\ req.Messages[3].role = "system"
    /\ req.Messages[3].Content.OfArrayOfContentParts # <<>>
    /\ anthropicReq.System = <<[Text |-> "a b"]>>

-----------------------------------------------------------------------------
(* Claims about toOpenAIResponse *)

Translated == pc = "done" /\ openaiResp # Nil

\* the texts of the text-tagged blocks one after the other, nothing between
RECURSIVE Juxtaposed(_, _)
Juxtaposed(ts, n) == IF n = 0 THEN "" ELSE Juxtaposed(ts, n - 1) \o ts[n].Text

\* C8: the content of the single choice is the concatenation, in block
\* order and with no separator, of the text of exactly the blocks tagged
\* text; other blocks contribute nothing, and no text block gives "".
C8_TextBlocksConcatenated ==
    Translated =>
        LET texts == SelectSeq(resp.Content, LAMBDA b : b.Type = "text") IN
        /\ Len(openaiResp.Choices) = 1
        /\ openaiResp.Choices[1].Message.Content = Juxtaposed(texts, Len(texts))
        /\ texts = <<>> => openaiResp.Choices[1].Message.Content = ""

\* two text blocks around a non-text block that carries text
C8_Witness ==
    /\ Translated
    /\ resp.Content = << [Type |-> "text", Text |-> "First part. "],
                         [Type |-> "tool_use", Text |-> "X"],
                         [Type |-> "text", Text |-> "Second part."] >>
    /\ openaiResp.Choices[1].Message.Content = "First part. Second part."

\* C9: max_tokens gives length, tool_use gives tool_calls, and every other
\* stop reason (end_turn, stop_sequence, empty, unrecognised) gives stop.
C9_FinishReasonTotal ==
    Translated =>
        LET fr == openaiResp.Choices[1].FinishReason IN
        /\ fr \in {"length", "tool_calls", "stop"}
        /\ resp.StopReason = "max_tokens" => fr = "length"
        /\ resp.StopReason = "tool_use" => fr = "tool_calls"
        /\ resp.StopReason \notin {"max_tokens", "tool_use"} => fr = "stop"

\* an unrecognised stop reason was translated
C9_Witness ==
    /\ Translated
    /\ resp.StopReason = "no_such_reason"
    /\ openaiResp.Choices[1].FinishReason = "stop"

\* C10: prompt_tokens is the backend input count, completion_tokens the
\* backend output count, total_tokens their sum.
C10_UsageSums ==
    Translated =>
        /\ openaiResp.Usage.PromptTokens = resp.Usage.InputTokens
        /\ openaiResp.Usage.CompletionTokens = resp.Usage.OutputTokens
        /\ openaiResp.Usage.TotalTokens =
             openaiResp.Usage.PromptTokens + openaiResp.Usage.CompletionTokens

\* input 10, output 100 gave total 110
C10_Witness ==
    /\ Translated
    /\ resp.Usage = [InputTokens |-> 10, OutputTokens |-> 100]
    /\ openaiResp.Usage =
         [PromptTokens |-> 10, CompletionTokens |-> 100, TotalTokens |-> 110]

\* C11: exactly one choice, with index 0 and role assistant; the object tag
\* is chat.completion; the id is the backend response id; the model is the
\* requested model string, not the model the backend reports.
C11_SingleChoiceEnvelope ==
    Translated =>
        /\ Len(openaiResp.Choices) = 1
        /\ openaiResp.Choices[1].Index = 0
        /\ openaiResp.Choices[1].Message.Role = "assistant"
        /\ openaiResp.Object = "chat.completion"
        /\ openaiResp.ID = resp.ID
        /\ openaiResp.Model = model

\* the backend reported another model name than the one requested
C11_Witness ==
    /\ Translated
    /\ resp.ID = "msg_456"
    /\ resp.Model # model
    /\ openaiResp.ID = "msg_456"
    /\ openaiResp.Model = model
    /\ Len(openaiResp.Choices) = 1

-----------------------------------------------------------------------------
(* Claims about ChatCompletion *)

\* the failure the documentation promises for stream=true
IsStreamingUnsupported(e) ==
    e # Nil /\ "type" \in DOMAIN e /\ e.type = "invalid_request_error" /\ e.code = 400

\* C1: a ChatCompletion call on a request with stream=true never invokes the
\* backend, and returns the unsupported-feature (invalid-request, 400)
\* failure.
C1_StreamRefusedBeforeBackend ==
    \A c \in CallIds :
        (calls[c].pc # "idle" /\ calls[c].req.stream) =>
            /\ sdk[c] = <<>>
            /\ calls[c].pc = "returned" => IsStreamingUnsupported(calls[c].err)

\* C12: a ChatCompletion call on a non-streaming request invokes the backend
\* exactly once, with the caller's context, also when the request has no
\* messages; when the invocation fails, the call returns a failure wrapping
\* the underlying error and no body, translates nothing, and there is never
\* a second invocation.
C12_BackendInvokedOnce ==
    \A c \in CallIds :
        (calls[c].pc # "idle" /\ ~calls[c].req.stream) =>
            /\ Len(sdk[c]) = 1
            /\ sdk[c][1].ctx = CtxOf(c)
            /\ (calls[c].pc = "returned" /\ calls[c].sdkErr # Nil) =>
                 /\ calls[c].err # Nil
                 /\ calls[c].err.wraps = calls[c].sdkErr
                 /\ calls[c].body = Nil

\* a non-streaming call without messages was cancelled and has returned
C12_Witness ==
    \E c \in CallIds :
        /\ calls[c].pc = "returned"
        /\ ~calls[c].req.stream
        /\ calls[c].req.Messages = <<>>
        /\ calls[c].sdkErr = [Error |-> "context canceled"]
        /\ calls[c].err.wraps = [Error |-> "context canceled"]
        /\ calls[c].err.message = "anthropic API error: context canceled"
        /\ calls[c].body = Nil
        /\ Len(sdk[c]) = 1
        /\ sdk[c][1].params.Messages = <<>>

\* the finish reason the contract gives a stop reason
ContractFinishReason(sr) ==
    IF sr = "max_tokens" THEN "length"
    ELSE IF sr = "tool_use" THEN "tool_calls"
    ELSE "stop"

\* what a call has returned comes from its own request and from the response
\* to its own invocation
ResultFromOwnCall(c) ==
    (calls[c].pc = "returned" /\ calls[c].resp # Nil) =>
        LET b == calls[c].body
            r == calls[c].resp
            texts == SelectSeq(r.Content, LAMBDA blk : blk.Type = "text")
        IN  /\ calls[c].err = Nil
            /\ b.model = calls[c].req.Model
            /\ b.id = r.ID
            /\ b.choices[1].message.content = Juxtaposed(texts, Len(texts))
            /\ b.choices[1].finish_reason = ContractFinishReason(r.StopReason)
            /\ b.usage.prompt_tokens = r.Usage.InputTokens
            /\ b.usage.completion_tokens = r.Usage.OutputTokens
            /\ b.usage.total_tokens = r.Usage.InputTokens + r.Usage.OutputTokens

\* a step of one call leaves the frame and the invocations of every other
\* call as they were
OwnFrameOnly ==
    \A c, d \in CallIds :
        (c # d /\ (calls'[c] # calls[c] \/ sdk'[c] # sdk[c])) =>
            (calls'[d] = calls[d] /\ sdk'[d] = sdk[d])

\* C14: under any interleaving of concurrent ChatCompletion calls on one
\* Client, each call's result depends only on its own request and on the
\* backend response to its own invocation, and no call writes what another
\* call has written.
C14_CallsIndependent ==
    /\ [](\A c \in CallIds : ResultFromOwnCall(c))
    /\ [][OwnFrameOnly]_vars

\* two calls were in flight together with different models and have returned
\* different backend responses
C14_Witness ==
    /\ calls[1].pc = "returned" /\ calls[2].pc = "returned"
    /\ calls[1].resp # Nil /\ calls[2].resp # Nil
    /\ calls[1].req.Model # calls[2].req.Model
    /\ calls[1].resp.ID # calls[2].resp.ID
    /\ calls[1].body.model = calls[1].req.Model
    /\ calls[2].body.model = calls[2].req.Model
    /\ calls[1].body.id = calls[1].resp.ID
    /\ calls[2].body.id = calls[2].resp.ID

====
